---------------------------- MODULE Spec2Model ----------------------------
(***************************************************************************)
(* Model of src/src/main.rs: a terminal subnet calculator.                 *)
(*                                                                         *)
(* The program is one thread: terminal setup, then the loop                *)
(*   draw -> poll(100 ms) -> read -> match key.code -> draw ...            *)
(* and, after 'q', terminal restoration.  The state is the App struct, the *)
(* terminal's mode and the frame on it, the position of the thread (pc),   *)
(* the event being matched and the build's arithmetic-overflow setting.    *)
(*                                                                         *)
(* Text is a sequence of one-character strings.  Option<T> is a sequence   *)
(* of length 0 (None) or 1 (Some).  An Ipv4Addr is its four octets.  A u32 *)
(* is kept as two 16-bit limbs [hi, lo], so that values up to 2^32 - 1 and *)
(* their overflow are represented exactly.                                 *)
(***************************************************************************)
EXTENDS Integers, Sequences, FiniteSets, TLC

VARIABLES
    ip_input,           \* App.ip_input: String
    subnet_input,       \* App.subnet_input: String
    input_mode,         \* App.input_mode: "IP" | "Subnet" | "NoTyping"
    network_address,    \* App.network_address: Option<Ipv4Addr>
    broadcast_address,  \* App.broadcast_address: Option<Ipv4Addr>
    subnet_count,       \* App.subnet_count: Option<u32>
    host_count,         \* App.host_count: Option<u32>
    ip,                 \* the address bound at line 45 (<<>> while unbound)
    subnet,             \* the mask bound at line 45 (<<>> while unbound)
    pc,                 \* position of the thread of control
    event,              \* the key event being matched (line 107)
    raw_mode,           \* terminal: raw mode enabled
    alternate_screen,   \* terminal: alternate screen entered
    cursor_hidden,      \* terminal: cursor hidden by a draw
    overflow_checks,    \* build: arithmetic overflow panics (dev) or wraps (release)
    ret,                \* value returned by an arithmetic function called alone
    frame               \* the frame last drawn on the terminal (<<>> before the first)

vars == << ip_input, subnet_input, input_mode, network_address,
           broadcast_address, subnet_count, host_count, ip, subnet, pc, event,
           raw_mode, alternate_screen, cursor_hidden, overflow_checks, ret,
           frame >>

app == << ip_input, subnet_input, input_mode, network_address,
          broadcast_address, subnet_count, host_count >>

results == << network_address, broadcast_address, subnet_count, host_count >>

terminal == << raw_mode, alternate_screen, cursor_hidden >>

----------------------------------------------------------------------------
(* Option<T> *)

None == << >>

Some(x) == << x >>

(* InputMode, lines 15-19 *)
InputMode == { "IP", "Subnet", "NoTyping" }

----------------------------------------------------------------------------
(* Bounds of the exploration *)

\* Longest text the user types into one buffer (15 is the longest text that
\* can be an IPv4 literal).
MaxLen == 15

Str_192_168_1_10 == << "1","9","2",".","1","6","8",".","1",".","1","0" >>

Str_192_168_1_1x == << "1","9","2",".","1","6","8",".","1",".","1","x" >>

Str_255_255_255_0 == << "2","5","5",".","2","5","5",".","2","5","5",".","0" >>

Str_255_255_255_00 == << "2","5","5",".","2","5","5",".","2","5","5",".","0","0" >>

Str_0_0_0_0_0 == << "0",".","0",".","0",".","0",".","0" >>

Str_256 == << "2","5","6" >>

Str_255_255_255_2555 ==
    << "2","5","5",".","2","5","5",".","2","5","5",".","2","5","5","5" >>

\* Texts the user may type into the IP buffer (every prefix of each is typed
\* on the way): a valid address, a three-octet text, a trailing dot, a
\* non-digit.
IpCorpus == { Str_192_168_1_10, Str_192_168_1_1x }

\* Texts the user may type into the subnet buffer: valid masks with 24, 25,
\* 27, 32 and 0 one-bits, a leading zero, a fifth group, an octet above 255,
\* a four-digit group (cut at MaxLen).
MaskCorpus ==
    { Str_255_255_255_0, Str_255_255_255_00, Str_0_0_0_0_0, Str_256,
      Str_255_255_255_2555 }

IsPrefix(s, t) == Len(s) <= Len(t) /\ SubSeq(t, 1, Len(s)) = s

\* The characters that extend text s towards a text of the corpus.
NextChars(s, corpus) ==
    IF Len(s) >= MaxLen THEN {}
    ELSE { t[Len(s) + 1] : t \in { u \in corpus : Len(u) > Len(s) /\ IsPrefix(s, u) } }

----------------------------------------------------------------------------
(* u32 arithmetic on two 16-bit limbs *)

Limb == 256 * 256

U32(n) == [ hi |-> n \div Limb, lo |-> n % Limb ]

\* x - k for a small k: the wrapped difference and whether it underflowed.
SubU32(x, k) ==
    IF x.lo >= k THEN [ value |-> [ hi |-> x.hi, lo |-> x.lo - k ], overflow |-> FALSE ]
    ELSE IF x.hi > 0
         THEN [ value |-> [ hi |-> x.hi - 1, lo |-> x.lo + Limb - k ], overflow |-> FALSE ]
         ELSE [ value |-> [ hi |-> Limb - 1, lo |-> x.lo + Limb - k ], overflow |-> TRUE ]

\* 2u32.pow(exp): 2^exp modulo 2^32, and whether 2^exp overflowed u32.
Pow2U32(exp) ==
    IF exp < 16 THEN [ value |-> [ hi |-> 0, lo |-> 2 ^ exp ], overflow |-> FALSE ]
    ELSE IF exp < 32 THEN [ value |-> [ hi |-> 2 ^ (exp - 16), lo |-> 0 ], overflow |-> FALSE ]
    ELSE [ value |-> [ hi |-> 0, lo |-> 0 ], overflow |-> TRUE ]

\* What a function call yields: a value, or a panic that unwinds the thread.
Returned(v) == [ panicked |-> FALSE, value |-> v ]

Panicked == [ panicked |-> TRUE, value |-> None ]

----------------------------------------------------------------------------
(* u8 bit operations *)

RECURSIVE BitAnd(_, _)
BitAnd(a, b) ==
    IF a = 0 \/ b = 0 THEN 0
    ELSE (a % 2) * (b % 2) + 2 * BitAnd(a \div 2, b \div 2)

RECURSIVE BitOr(_, _)
BitOr(a, b) ==
    IF a = 0 THEN b
    ELSE IF b = 0 THEN a
    ELSE (IF a % 2 = 1 \/ b % 2 = 1 THEN 1 ELSE 0) + 2 * BitOr(a \div 2, b \div 2)

\* !b on a u8
BitNot8(b) == 255 - b

\* u8::count_ones
RECURSIVE count_ones(_)
count_ones(b) == IF b = 0 THEN 0 ELSE (b % 2) + count_ones(b \div 2)

----------------------------------------------------------------------------
(* <Ipv4Addr as FromStr>::from_str, as called at lines 46-47: four groups  *)
(* separated by '.', each of one to three decimal digits, without a        *)
(* leading zero unless the group is "0", of value at most 255; nothing     *)
(* before, between or after.                                               *)

Digits == { "0", "1", "2", "3", "4", "5", "6", "7", "8", "9" }

DigitVal(c) ==
    CASE c = "0" -> 0 [] c = "1" -> 1 [] c = "2" -> 2 [] c = "3" -> 3
      [] c = "4" -> 4 [] c = "5" -> 5 [] c = "6" -> 6 [] c = "7" -> 7
      [] c = "8" -> 8 [] c = "9" -> 9

\* The groups of s between its dots.
RECURSIVE SplitDots(_)
SplitDots(s) ==
    IF \A i \in 1..Len(s) : s[i] # "."
    THEN << s >>
    ELSE LET d == CHOOSE i \in 1..Len(s) :
                      s[i] = "." /\ \A j \in 1..(i - 1) : s[j] # "."
         IN  << SubSeq(s, 1, d - 1) >> \o SplitDots(SubSeq(s, d + 1, Len(s)))

RECURSIVE DecimalValue(_)
DecimalValue(g) ==
    IF g = << >> THEN 0
    ELSE 10 * DecimalValue(SubSeq(g, 1, Len(g) - 1)) + DigitVal(g[Len(g)])

\* One group as a u8: Some(value) or None.
read_number(g) ==
    IF /\ Len(g) \in 1..3
       /\ \A i \in 1..Len(g) : g[i] \in Digits
       /\ (Len(g) > 1 => g[1] # "0")
       /\ DecimalValue(g) <= 255
    THEN Some(DecimalValue(g))
    ELSE None

\* .parse::<Ipv4Addr>().ok(): Some(octets) or None.
ParseIpv4Addr(s) ==
    LET g == SplitDots(s)
    IN  IF Len(s) <= 15 /\ Len(g) = 4 /\ \A i \in 1..4 : read_number(g[i]) # None
        THEN Some(<< read_number(g[1])[1], read_number(g[2])[1],
                     read_number(g[3])[1], read_number(g[4])[1] >>)
        ELSE None

----------------------------------------------------------------------------
(* Subnet arithmetic, lines 141-179 *)

\* Variant: the octets are OR-ed with the mask instead of AND-ed.
calculate_network_address_or(ip_, subnet_mask) ==
    << BitOr(ip_[1], subnet_mask[1]), BitOr(ip_[2], subnet_mask[2]),
       BitOr(ip_[3], subnet_mask[3]), BitOr(ip_[4], subnet_mask[4]) >>

calculate_network_address(ip_, subnet_mask) ==
    << BitAnd(ip_[1], subnet_mask[1]), BitAnd(ip_[2], subnet_mask[2]),
       BitAnd(ip_[3], subnet_mask[3]), BitAnd(ip_[4], subnet_mask[4]) >>

\* Variant: the mask is not inverted before the OR.
calculate_broadcast_address_not_inverted(ip_, subnet_mask) ==
    << BitOr(ip_[1], BitAnd(subnet_mask[1], 255)),
       BitOr(ip_[2], BitAnd(subnet_mask[2], 255)),
       BitOr(ip_[3], BitAnd(subnet_mask[3], 255)),
       BitOr(ip_[4], BitAnd(subnet_mask[4], 255)) >>

calculate_broadcast_address(ip_, subnet_mask) ==
    << BitOr(ip_[1], BitAnd(BitNot8(subnet_mask[1]), 255)),
       BitOr(ip_[2], BitAnd(BitNot8(subnet_mask[2]), 255)),
       BitOr(ip_[3], BitAnd(BitNot8(subnet_mask[3]), 255)),
       BitOr(ip_[4], BitAnd(BitNot8(subnet_mask[4]), 255)) >>

\* Variant: the first octet is left out of the sum.
ones_count_skipping_first(subnet_mask) ==
    count_ones(subnet_mask[2]) + count_ones(subnet_mask[3]) + count_ones(subnet_mask[4])

\* subnet_mask.octets().iter().map(|&b| b.count_ones()).sum::<u32>()
ones_count(subnet_mask) ==
    count_ones(subnet_mask[1]) + count_ones(subnet_mask[2])
        + count_ones(subnet_mask[3]) + count_ones(subnet_mask[4])

\* Variant: 2u32.saturating_pow, which yields u32::MAX on overflow.
calculate_subnet_count_saturating(subnet_mask) ==
    LET p == Pow2U32(32 - ones_count(subnet_mask))
    IN  IF p.overflow THEN Returned([ hi |-> Limb - 1, lo |-> Limb - 1 ])
        ELSE Returned(p.value)

\* 2u32.pow(32 - ones_count): overflow panics under overflow checks and
\* wraps otherwise.
calculate_subnet_count(subnet_mask) ==
    LET p == Pow2U32(32 - ones_count(subnet_mask))
    IN  IF p.overflow /\ overflow_checks THEN Panicked ELSE Returned(p.value)

\* Variant: saturating_sub(2), which yields 0 on underflow.
calculate_host_count_saturating(subnet_mask) ==
    LET p == Pow2U32(32 - ones_count(subnet_mask))
        d == SubU32(p.value, 2)
    IN  IF p.overflow /\ overflow_checks THEN Panicked
        ELSE IF d.overflow THEN Returned(U32(0))
        ELSE Returned(d.value)

\* 2u32.pow(32 - ones_count) - 2
calculate_host_count(subnet_mask) ==
    LET p == Pow2U32(32 - ones_count(subnet_mask))
        d == SubU32(p.value, 2)
    IN  IF p.overflow /\ overflow_checks THEN Panicked
        ELSE IF d.overflow /\ overflow_checks THEN Panicked
        ELSE Returned(d.value)

----------------------------------------------------------------------------
(* struct App, lines 21-55 *)

\* App::new()
App_new ==
    [ ip_input          |-> << >>,
      subnet_input      |-> << >>,
      input_mode        |-> "NoTyping",
      network_address   |-> None,
      broadcast_address |-> None,
      subnet_count      |-> None,
      host_count        |-> None ]

\* The App as it is now.
Self ==
    [ ip_input          |-> ip_input,
      subnet_input      |-> subnet_input,
      input_mode        |-> input_mode,
      network_address   |-> network_address,
      broadcast_address |-> broadcast_address,
      subnet_count      |-> subnet_count,
      host_count        |-> host_count ]

\* Variant: a failed parse clears the results instead of keeping them.
calculate_subnet_clearing(self) ==
    LET pi == ParseIpv4Addr(self.ip_input)
        ps == ParseIpv4Addr(self.subnet_input)
    IN  IF pi # None /\ ps # None
        THEN LET a  == pi[1]
                 m  == ps[1]
                 sc == calculate_subnet_count(m)
                 hc == calculate_host_count(m)
             IN  [ app |-> [ self EXCEPT
                               !.network_address = Some(calculate_network_address(a, m)),
                               !.broadcast_address = Some(calculate_broadcast_address(a, m)),
                               !.subnet_count = IF sc.panicked THEN @ ELSE Some(sc.value),
                               !.host_count = IF sc.panicked \/ hc.panicked THEN @
                                              ELSE Some(hc.value) ],
                   ip |-> a, subnet |-> m, panicked |-> sc.panicked \/ hc.panicked ]
        ELSE [ app |-> [ self EXCEPT !.network_address = None, !.broadcast_address = None,
                                     !.subnet_count = None, !.host_count = None ],
               ip |-> ip, subnet |-> subnet, panicked |-> FALSE ]

\* Variant: a successful recomputation over results that are already present
\* removes them instead of storing them again.
calculate_subnet_toggling(self) ==
    LET pi == ParseIpv4Addr(self.ip_input)
        ps == ParseIpv4Addr(self.subnet_input)
    IN  IF pi # None /\ ps # None
        THEN LET a  == pi[1]
                 m  == ps[1]
                 s1 == [ self EXCEPT !.network_address = Some(calculate_network_address(a, m)) ]
                 s2 == [ s1 EXCEPT !.broadcast_address = Some(calculate_broadcast_address(a, m)) ]
                 sc == calculate_subnet_count(m)
                 s3 == [ s2 EXCEPT !.subnet_count = Some(sc.value) ]
                 hc == calculate_host_count(m)
                 s4 == [ s3 EXCEPT !.host_count = IF self.host_count = None
                                                  THEN Some(hc.value) ELSE None ]
             IN  IF sc.panicked THEN [ app |-> s2, ip |-> a, subnet |-> m, panicked |-> TRUE ]
                 ELSE IF hc.panicked THEN [ app |-> s3, ip |-> a, subnet |-> m, panicked |-> TRUE ]
                 ELSE [ app |-> s4, ip |-> a, subnet |-> m, panicked |-> FALSE ]
        ELSE [ app |-> self, ip |-> ip, subnet |-> subnet, panicked |-> FALSE ]

\* App::calculate_subnet(&mut self): the App it leaves, the locals it bound,
\* and whether it panicked.  The four assignments run in order, so a panic
\* in the third or fourth leaves the earlier ones made.
calculate_subnet(self) ==
    LET pi == ParseIpv4Addr(self.ip_input)
        ps == ParseIpv4Addr(self.subnet_input)
    IN  IF pi # None /\ ps # None
        THEN LET a  == pi[1]
                 m  == ps[1]
                 s1 == [ self EXCEPT !.network_address = Some(calculate_network_address(a, m)) ]
                 s2 == [ s1 EXCEPT !.broadcast_address = Some(calculate_broadcast_address(a, m)) ]
                 sc == calculate_subnet_count(m)
                 s3 == [ s2 EXCEPT !.subnet_count = Some(sc.value) ]
                 hc == calculate_host_count(m)
                 s4 == [ s3 EXCEPT !.host_count = Some(hc.value) ]
             IN  IF sc.panicked THEN [ app |-> s2, ip |-> a, subnet |-> m, panicked |-> TRUE ]
                 ELSE IF hc.panicked THEN [ app |-> s3, ip |-> a, subnet |-> m, panicked |-> TRUE ]
                 ELSE [ app |-> s4, ip |-> a, subnet |-> m, panicked |-> FALSE ]
        ELSE [ app |-> self, ip |-> ip, subnet |-> subnet, panicked |-> FALSE ]

----------------------------------------------------------------------------
(* Key events, crossterm::event::KeyCode *)

NoEvent == [ code |-> "None", ch |-> "" ]

Char(c) == [ code |-> "Char", ch |-> c ]

Backspace == [ code |-> "Backspace", ch |-> "" ]

Enter == [ code |-> "Enter", ch |-> "" ]

\* A key code no arm names (Esc, Tab, arrows, ...).
Esc == [ code |-> "Esc", ch |-> "" ]

\* The characters the user may type in the current state: the three command
\* letters, and the characters that extend a buffer towards a corpus text.
TypedChars ==
    {"q", "i", "s"} \cup
    CASE input_mode = "IP"       -> NextChars(ip_input, IpCorpus)
      [] input_mode = "Subnet"   -> NextChars(subnet_input, MaskCorpus)
      [] input_mode = "NoTyping" -> NextChars(ip_input, IpCorpus)
                                        \cup NextChars(subnet_input, MaskCorpus)

KeyEvents == { Char(c) : c \in TypedChars } \cup { Backspace, Enter, Esc }

\* Variant: the arm of any character placed before the arm of 's'.
Arm_char_before_s(key) ==
    IF key = Char("q") THEN "quit"
    ELSE IF key = Char("i") THEN "edit_ip"
    ELSE IF key.code = "Char" THEN "char"
    ELSE IF key = Char("s") THEN "edit_subnet"
    ELSE IF key.code = "Backspace" THEN "backspace"
    ELSE IF key.code = "Enter" THEN "enter"
    ELSE "other"

\* Variant: the arms of 'i' and 's' exchanged.
Arm_letters_exchanged(key) ==
    IF key = Char("q") THEN "quit"
    ELSE IF key = Char("s") THEN "edit_ip"
    ELSE IF key = Char("i") THEN "edit_subnet"
    ELSE IF key.code = "Char" THEN "char"
    ELSE IF key.code = "Backspace" THEN "backspace"
    ELSE IF key.code = "Enter" THEN "enter"
    ELSE "other"

\* match key.code, lines 107-130: the first arm that matches.
Arm(key) ==
    IF key = Char("q") THEN "quit"
    ELSE IF key = Char("i") THEN "edit_ip"
    ELSE IF key = Char("s") THEN "edit_subnet"
    ELSE IF key.code = "Char" THEN "char"
    ELSE IF key.code = "Backspace" THEN "backspace"
    ELSE IF key.code = "Enter" THEN "enter"
    ELSE "other"

\* Variant: the first character is removed instead of the last.
Pop_first(s) == IF s = << >> THEN s ELSE SubSeq(s, 2, Len(s))

\* String::pop
Pop(s) == IF s = << >> THEN s ELSE SubSeq(s, 1, Len(s) - 1)

----------------------------------------------------------------------------
(* The frame, lines 67-103 *)

\* Variant: the idle prompt replaced by the title of IP mode.
input_title_idle_as_ip(mode) ==
    CASE mode = "IP"       -> "Enter IP Address:"
      [] mode = "Subnet"   -> "Enter Subnet Mask:"
      [] mode = "NoTyping" -> "Enter IP Address:"

\* lines 77-81: the title of the input panel
input_title(mode) ==
    CASE mode = "IP"       -> "Enter IP Address:"
      [] mode = "Subnet"   -> "Enter Subnet Mask:"
      [] mode = "NoTyping" -> "Press 'i' to Input IP, 's' for Subnet"

\* Option::unwrap_or
unwrap_or(opt, default) == IF opt = None THEN default ELSE opt[1]

DigitChar(d) == << "0", "1", "2", "3", "4", "5", "6", "7", "8", "9" >>[d + 1]

\* Display of a u8: decimal without leading zeros.
fmt_u8(n) ==
    IF n < 10 THEN << DigitChar(n) >>
    ELSE IF n < 100 THEN << DigitChar(n \div 10), DigitChar(n % 10) >>
    ELSE << DigitChar(n \div 100), DigitChar((n \div 10) % 10), DigitChar(n % 10) >>

\* Display of an Ipv4Addr: the four octets in decimal, joined by dots.
fmt_Ipv4Addr(a) ==
    fmt_u8(a[1]) \o << "." >> \o fmt_u8(a[2]) \o << "." >> \o fmt_u8(a[3])
        \o << "." >> \o fmt_u8(a[4])

\* Display of a u32: decimal without leading zeros, by division by ten on
\* the limbs.
RECURSIVE fmt_u32(_)
fmt_u32(x) ==
    LET rest == (x.hi % 10) * Limb + x.lo
        q    == [ hi |-> x.hi \div 10, lo |-> rest \div 10 ]
    IN  IF q.hi = 0 /\ q.lo = 0 THEN << DigitChar(rest % 10) >>
        ELSE fmt_u32(q) \o << DigitChar(rest % 10) >>

\* line 83: format!("IP: {}\nSubnet: {}", ..)
input_text(self) ==
    << "I","P",":"," " >> \o self.ip_input
        \o << "\n","S","u","b","n","e","t",":"," " >> \o self.subnet_input

\* lines 87-94: format!("Network Address: {}\nBroadcast Address: {}\n
\* Subnet Count: {}\nHost Count: {}", ..) over the results or their defaults
result_text(self) ==
    << "N","e","t","w","o","r","k"," ","A","d","d","r","e","s","s",":",
       " " >>
        \o fmt_Ipv4Addr(unwrap_or(self.network_address, << 0, 0, 0, 0 >>))
        \o
        << "\n","B","r","o","a","d","c","a","s","t"," ","A","d","d","r","e",
           "s","s",":"," " >>
        \o fmt_Ipv4Addr(unwrap_or(self.broadcast_address, << 0, 0, 0, 0 >>))
        \o
        << "\n","S","u","b","n","e","t"," ","C","o","u","n","t",":"," " >>
        \o fmt_u32(unwrap_or(self.subnet_count, U32(0)))
        \o
        << "\n","H","o","s","t"," ","C","o","u","n","t",":"," " >>
        \o fmt_u32(unwrap_or(self.host_count, U32(0)))

\* lines 67-103: the two panels the closure of terminal.draw renders.
Render(self) ==
    [ input_title  |-> input_title(self.input_mode),
      input_text   |-> input_text(self),
      result_title |-> "Subnet Calculation",
      result_text  |-> result_text(self) ]

----------------------------------------------------------------------------

(* main, lines 57-139 *)

\* Positions at which the ratatui Terminal (line 62) is alive; when main
\* returns early or unwinds there, dropping it shows the cursor again.
TerminalAlive ==
    pc \in { "draw", "poll", "read", "match", "disable_raw_mode",
             "leave_alternate_screen", "show_cursor" }

\* Positions whose call returns io::Result and is followed by `?`.
Fallible ==
    { "enable_raw_mode", "enter_alternate_screen", "terminal_new", "draw",
      "poll", "read", "disable_raw_mode", "leave_alternate_screen", "show_cursor" }

Init ==
    /\ ip_input = App_new.ip_input
    /\ subnet_input = App_new.subnet_input
    /\ input_mode = App_new.input_mode
    /\ network_address = App_new.network_address
    /\ broadcast_address = App_new.broadcast_address
    /\ subnet_count = App_new.subnet_count
    /\ host_count = App_new.host_count
    /\ ip = None
    /\ subnet = None
    /\ pc = "enable_raw_mode"
    /\ event = NoEvent
    /\ raw_mode = FALSE
    /\ alternate_screen = FALSE
    /\ cursor_hidden = FALSE
    /\ overflow_checks \in BOOLEAN
    /\ ret = None
    /\ frame = None

\* line 58: enable_raw_mode()?
EnableRawMode ==
    /\ pc = "enable_raw_mode"
    /\ raw_mode' = TRUE
    /\ pc' = "enter_alternate_screen"
    /\ UNCHANGED << app, ip, subnet, event, alternate_screen, cursor_hidden,
                    overflow_checks, ret, frame >>

\* line 60: execute!(stdout, EnterAlternateScreen)?
EnterAlternateScreen ==
    /\ pc = "enter_alternate_screen"
    /\ alternate_screen' = TRUE
    /\ pc' = "terminal_new"
    /\ UNCHANGED << app, ip, subnet, event, raw_mode, cursor_hidden,
                    overflow_checks, ret, frame >>

\* lines 61-64: Terminal::new(backend)?; App::new()
TerminalNew ==
    /\ pc = "terminal_new"
    /\ pc' = "draw"
    /\ UNCHANGED << app, ip, subnet, event, terminal, overflow_checks, ret, frame >>

\* lines 67-103: terminal.draw(..)?  A draw that sets no cursor position
\* hides the cursor.
Draw ==
    /\ pc = "draw"
    /\ frame' = Some(Render(Self))
    /\ cursor_hidden' = TRUE
    /\ pc' = "poll"
    /\ UNCHANGED << app, ip, subnet, event, raw_mode, alternate_screen,
                    overflow_checks, ret >>

\* line 105: event::poll(100 ms)? returned true
PollReady ==
    /\ pc = "poll"
    /\ pc' = "read"
    /\ UNCHANGED << app, ip, subnet, event, terminal, overflow_checks, ret, frame >>

\* line 105: event::poll(100 ms)? returned false; the loop starts over
PollTimeout ==
    /\ pc = "poll"
    /\ pc' = "draw"
    /\ UNCHANGED << app, ip, subnet, event, terminal, overflow_checks, ret, frame >>

\* line 106: event::read()? returned Event::Key(key)
ReadKey ==
    /\ pc = "read"
    /\ \E key \in KeyEvents : event' = key
    /\ pc' = "match"
    /\ UNCHANGED << app, ip, subnet, terminal, overflow_checks, ret, frame >>

\* line 106: event::read()? returned an event that is no key (resize,
\* mouse, focus, paste); the if-let does not match
ReadOther ==
    /\ pc = "read"
    /\ pc' = "draw"
    /\ UNCHANGED << app, ip, subnet, event, terminal, overflow_checks, ret, frame >>

\* line 108: KeyCode::Char('q') => break
KeyQ ==
    /\ pc = "match"
    /\ Arm(event) = "quit"
    /\ pc' = "disable_raw_mode"
    /\ event' = NoEvent
    /\ UNCHANGED << app, ip, subnet, terminal, overflow_checks, ret, frame >>

\* line 109: KeyCode::Char('i') => app.input_mode = InputMode::IP
KeyI ==
    /\ pc = "match"
    /\ Arm(event) = "edit_ip"
    /\ input_mode' = "IP"
    /\ pc' = "draw"
    /\ event' = NoEvent
    /\ UNCHANGED << ip_input, subnet_input, results, ip, subnet, terminal,
                    overflow_checks, ret, frame >>

\* line 110: KeyCode::Char('s') => app.input_mode = InputMode::Subnet
KeyS ==
    /\ pc = "match"
    /\ Arm(event) = "edit_subnet"
    /\ input_mode' = "Subnet"
    /\ pc' = "draw"
    /\ event' = NoEvent
    /\ UNCHANGED << ip_input, subnet_input, results, ip, subnet, terminal,
                    overflow_checks, ret, frame >>

\* Variant: with no buffer selected, the character goes to the IP buffer.
KeyChar_unselected_to_ip ==
    /\ pc = "match"
    /\ Arm(event) = "char"
    /\ ip_input' = IF input_mode # "Subnet" THEN Append(ip_input, event.ch) ELSE ip_input
    /\ subnet_input' = IF input_mode = "Subnet" THEN Append(subnet_input, event.ch)
                       ELSE subnet_input
    /\ pc' = "draw"
    /\ event' = NoEvent
    /\ UNCHANGED << input_mode, results, ip, subnet, terminal, overflow_checks, ret, frame >>

\* lines 111-115: KeyCode::Char(c) => push c to the buffer of the mode
KeyChar ==
    /\ pc = "match"
    /\ Arm(event) = "char"
    /\ ip_input' = IF input_mode = "IP" THEN Append(ip_input, event.ch) ELSE ip_input
    /\ subnet_input' = IF input_mode = "Subnet" THEN Append(subnet_input, event.ch)
                       ELSE subnet_input
    /\ pc' = "draw"
    /\ event' = NoEvent
    /\ UNCHANGED << input_mode, results, ip, subnet, terminal, overflow_checks, ret, frame >>

\* Variant: after Backspace the loop polls again without drawing.
KeyBackspace_no_redraw ==
    /\ pc = "match"
    /\ Arm(event) = "backspace"
    /\ ip_input' = IF input_mode = "IP" THEN Pop(ip_input) ELSE ip_input
    /\ subnet_input' = IF input_mode = "Subnet" THEN Pop(subnet_input) ELSE subnet_input
    /\ pc' = "poll"
    /\ event' = NoEvent
    /\ UNCHANGED << input_mode, results, ip, subnet, terminal, overflow_checks, ret,
                    frame >>

\* lines 116-124: KeyCode::Backspace => pop the buffer of the mode
KeyBackspace ==
    /\ pc = "match"
    /\ Arm(event) = "backspace"
    /\ ip_input' = IF input_mode = "IP" THEN Pop(ip_input) ELSE ip_input
    /\ subnet_input' = IF input_mode = "Subnet" THEN Pop(subnet_input) ELSE subnet_input
    /\ pc' = "draw"
    /\ event' = NoEvent
    /\ UNCHANGED << input_mode, results, ip, subnet, terminal, overflow_checks, ret, frame >>

\* lines 125-128: KeyCode::Enter => calculate_subnet(), then NoTyping.  A
\* panic inside calculate_subnet unwinds main: line 127 and the restoration
\* at lines 135-137 never run; the Terminal is dropped.
KeyEnter ==
    /\ pc = "match"
    /\ Arm(event) = "enter"
    /\ LET r == calculate_subnet(Self)
       IN  /\ ip_input' = r.app.ip_input
           /\ subnet_input' = r.app.subnet_input
           /\ network_address' = r.app.network_address
           /\ broadcast_address' = r.app.broadcast_address
           /\ subnet_count' = r.app.subnet_count
           /\ host_count' = r.app.host_count
           /\ ip' = r.ip
           /\ subnet' = r.subnet
           /\ input_mode' = IF r.panicked THEN r.app.input_mode ELSE "NoTyping"
           /\ pc' = IF r.panicked THEN "panicked" ELSE "draw"
           /\ cursor_hidden' = IF r.panicked THEN FALSE ELSE cursor_hidden
    /\ event' = NoEvent
    /\ UNCHANGED << raw_mode, alternate_screen, overflow_checks, ret, frame >>

\* line 129: _ => {}
KeyOther ==
    /\ pc = "match"
    /\ Arm(event) = "other"
    /\ pc' = "draw"
    /\ event' = NoEvent
    /\ UNCHANGED << app, ip, subnet, terminal, overflow_checks, ret, frame >>

\* line 135: disable_raw_mode()?
DisableRawMode ==
    /\ pc = "disable_raw_mode"
    /\ raw_mode' = FALSE
    /\ pc' = "leave_alternate_screen"
    /\ UNCHANGED << app, ip, subnet, event, alternate_screen, cursor_hidden,
                    overflow_checks, ret, frame >>

\* line 136: execute!(terminal.backend_mut(), LeaveAlternateScreen)?
LeaveAlternateScreen ==
    /\ pc = "leave_alternate_screen"
    /\ alternate_screen' = FALSE
    /\ pc' = "show_cursor"
    /\ UNCHANGED << app, ip, subnet, event, raw_mode, cursor_hidden,
                    overflow_checks, ret, frame >>

\* lines 137-138: terminal.show_cursor()?; Ok(())
ShowCursor ==
    /\ pc = "show_cursor"
    /\ cursor_hidden' = FALSE
    /\ pc' = "done"
    /\ UNCHANGED << app, ip, subnet, event, raw_mode, alternate_screen,
                    overflow_checks, ret, frame >>

\* The `?` of lines 58, 60, 62, 103, 105, 106, 135, 136, 137: the call
\* returned Err, and main returns it at once.  Nothing else runs but the
\* drop of the locals.
IoError ==
    /\ pc \in Fallible
    /\ pc' = "failed"
    /\ cursor_hidden' = IF TerminalAlive THEN FALSE ELSE cursor_hidden
    /\ UNCHANGED << app, ip, subnet, event, raw_mode, alternate_screen,
                    overflow_checks, ret, frame >>

Next ==
    \/ EnableRawMode
    \/ EnterAlternateScreen
    \/ TerminalNew
    \/ Draw
    \/ PollReady
    \/ PollTimeout
    \/ ReadKey
    \/ ReadOther
    \/ KeyQ
    \/ KeyI
    \/ KeyS
    \/ KeyChar
    \/ KeyBackspace
    \/ KeyEnter
    \/ KeyOther
    \/ DisableRawMode
    \/ LeaveAlternateScreen
    \/ ShowCursor
    \/ IoError

Spec == Init /\ [][Next]_vars

----------------------------------------------------------------------------
(* The four arithmetic functions called alone, on an address and a mask    *)
(* drawn from a bounded set, in a build with or without overflow checks.   *)

\* Octets the masks are built from: 0, 1, 4, 6, 7 and 8 one-bits.
MaskOctets == { 0, 128, 170, 252, 254, 255 }

ArithMasks == { << a, b, c, d >> : a \in MaskOctets, b \in MaskOctets,
                                   c \in MaskOctets, d \in MaskOctets }

ArithAddrs ==
    { << 192, 168, 1, 10 >>, << 10, 0, 0, 1 >>, << 255, 255, 255, 255 >>,
      << 0, 0, 0, 0 >>, << 85, 170, 15, 240 >> }

InitArith ==
    /\ ip_input = App_new.ip_input
    /\ subnet_input = App_new.subnet_input
    /\ input_mode = App_new.input_mode
    /\ network_address = App_new.network_address
    /\ broadcast_address = App_new.broadcast_address
    /\ subnet_count = App_new.subnet_count
    /\ host_count = App_new.host_count
    /\ ip \in ArithAddrs
    /\ subnet \in ArithMasks
    /\ pc = "call"
    /\ event = NoEvent
    /\ raw_mode = FALSE
    /\ alternate_screen = FALSE
    /\ cursor_hidden = FALSE
    /\ overflow_checks \in BOOLEAN
    /\ ret = None
    /\ frame = None

Return(fn, out) ==
    /\ pc = "call"
    /\ pc' = "returned"
    /\ ret' = Some([ fn |-> fn, out |-> out ])
    /\ UNCHANGED << app, ip, subnet, event, terminal, overflow_checks, frame >>

CallNetworkAddress ==
    Return("calculate_network_address", Returned(calculate_network_address(ip, subnet)))

CallBroadcastAddress ==
    Return("calculate_broadcast_address", Returned(calculate_broadcast_address(ip, subnet)))

CallSubnetCount ==
    Return("calculate_subnet_count", calculate_subnet_count(subnet))

CallHostCount ==
    Return("calculate_host_count", calculate_host_count(subnet))

NextArith ==
    \/ CallNetworkAddress
    \/ CallBroadcastAddress
    \/ CallSubnetCount
    \/ CallHostCount

SpecArith == InitArith /\ [][NextArith]_vars

----------------------------------------------------------------------------
(* Vocabulary of the properties, stated apart from the code's own          *)
(* operations: bits by position, decimal text by division.                 *)

\* Bit k (0 = least significant) of octet x.
Bit(x, k) == (x \div (2 ^ k)) % 2

\* The octet whose bits are given by f: 0..7 -> {0, 1}.
OctetOfBits(f) ==
    f[0] + 2 * f[1] + 4 * f[2] + 8 * f[3] + 16 * f[4] + 32 * f[5] + 64 * f[6] + 128 * f[7]

\* Number of one-bits of the 32-bit mask m.
OnesOf(m) ==
    LET n(i) == Bit(m[i], 0) + Bit(m[i], 1) + Bit(m[i], 2) + Bit(m[i], 3)
                    + Bit(m[i], 4) + Bit(m[i], 5) + Bit(m[i], 6) + Bit(m[i], 7)
    IN  n(1) + n(2) + n(3) + n(4)

DigitText == << "0", "1", "2", "3", "4", "5", "6", "7", "8", "9" >>

\* The decimal text of n, without leading zeros.
RECURSIVE Decimal(_)
Decimal(n) ==
    IF n < 10 THEN << DigitText[n + 1] >>
    ELSE Append(Decimal(n \div 10), DigitText[(n % 10) + 1])

\* The text of each octet 0..255.
OctetText == [ n \in 0..255 |-> Decimal(n) ]

OctetTexts == { OctetText[n] : n \in 0..255 }

\* s is a dotted-decimal IPv4 literal: four octet texts separated by dots.
IsIpv4Literal(s) ==
    /\ Cardinality({ i \in 1..Len(s) : s[i] = "." }) = 3
    /\ \A g \in { SplitDots(s)[i] : i \in 1..4 } : g \in OctetTexts

\* The address a literal denotes.
AddrOf(s) ==
    LET g == SplitDots(s)
    IN  [ i \in 1..4 |-> CHOOSE n \in 0..255 : OctetText[n] = g[i] ]

\* The u32 x is the number n (n below 2^31).
IsNat(x, n) == x.hi < 32768 /\ x.hi * Limb + x.lo = n

\* The u32 x is 2^e (0 <= e <= 31).
IsPowerOfTwo(x, e) ==
    IF e <= 30 THEN IsNat(x, 2 ^ e) ELSE x.hi = 32768 /\ x.lo = 0

\* The u32 x is 2^e - 2 (1 <= e <= 31).
IsPowerOfTwoLess2(x, e) ==
    IF e <= 30 THEN IsNat(x, 2 ^ e - 2) ELSE x.hi = 32767 /\ x.lo = Limb - 2

AllAbsent ==
    /\ network_address = None
    /\ broadcast_address = None
    /\ subnet_count = None
    /\ host_count = None

AllPresent ==
    /\ network_address # None
    /\ broadcast_address # None
    /\ subnet_count # None
    /\ host_count # None

\* An Enter key is about to be handled.
AtEnter == pc = "match" /\ event = Enter

BothLiterals == IsIpv4Literal(ip_input) /\ IsIpv4Literal(subnet_input)

\* The positions of the loop, lines 66-133.
InLoop == pc \in { "draw", "poll", "read", "match" }

\* The process has ended: main returned Ok, returned Err, or panicked.
Ended == pc \in { "done", "failed", "panicked" }

\* A AND M, octet by octet, from the bits.
NetworkOf(a, m) ==
    [ i \in 1..4 |-> OctetOfBits([ k \in 0..7 |-> Bit(a[i], k) * Bit(m[i], k) ]) ]

\* A OR (NOT M), octet by octet, from the bits.
BroadcastOf(a, m) ==
    [ i \in 1..4 |->
        OctetOfBits([ k \in 0..7 |-> IF Bit(m[i], k) = 1 THEN Bit(a[i], k) ELSE 1 ]) ]

----------------------------------------------------------------------------
(* Properties of the loop (specification Spec) *)

\* C1: when Enter is handled while the IP buffer or the subnet buffer is not
\* a dotted-decimal IPv4 literal, none of the four result fields changes,
\* whatever the input mode.
C1_InvalidEnterKeepsResults ==
    [][ (AtEnter /\ ~BothLiterals) => UNCHANGED results ]_vars

\* C1 witness: Enter is being handled in IP mode with the three-octet text
\* "192.168.1" in the IP buffer and results already computed.
C1_Witness ==
    /\ AtEnter
    /\ input_mode = "IP"
    /\ ip_input = SubSeq(Str_192_168_1_10, 1, 9)
    /\ AllPresent

\* C2: every state the loop observes has all four results absent or all four
\* present, and every step leaves all four unchanged or replaces all four
\* with the values computed from the one (address, mask) pair in the buffers.
C2_AtomicGroup ==
    [][ /\ (InLoop' => (AllAbsent' \/ AllPresent'))
        /\ \/ UNCHANGED results
           \/ /\ AtEnter
              /\ BothLiterals
              /\ network_address' = Some(NetworkOf(AddrOf(ip_input), AddrOf(subnet_input)))
              /\ broadcast_address' = Some(BroadcastOf(AddrOf(ip_input), AddrOf(subnet_input)))
              /\ subnet_count' = Some(calculate_subnet_count(AddrOf(subnet_input)).value)
              /\ host_count' = Some(calculate_host_count(AddrOf(subnet_input)).value) ]_vars

\* C3: whenever the process has ended, by 'q' or by a propagated failure, the
\* terminal is restored: raw mode disabled, alternate screen left, cursor
\* shown.
C3_TerminalRestored ==
    Ended => (~raw_mode /\ ~alternate_screen /\ ~cursor_hidden)

\* C4: after Enter with both buffers literals, address A and mask M of 1 to 30
\* one-bits, the four results are A AND M, A OR NOT M, 2^(32 - ones(M)) and
\* that minus 2; for "192.168.1.10" and "255.255.255.0" they are 192.168.1.0,
\* 192.168.1.255, 256 and 254.
C4_EnterComputesResults ==
    [][ /\ (AtEnter /\ BothLiterals) =>
            LET a == AddrOf(ip_input)
                m == AddrOf(subnet_input)
                n == OnesOf(m)
            IN  n \in 1..30 =>
                    /\ AllPresent'
                    /\ network_address'[1] = NetworkOf(a, m)
                    /\ broadcast_address'[1] = BroadcastOf(a, m)
                    /\ IsPowerOfTwo(subnet_count'[1], 32 - n)
                    /\ IsPowerOfTwoLess2(host_count'[1], 32 - n)
        /\ (AtEnter /\ ip_input = Str_192_168_1_10 /\ subnet_input = Str_255_255_255_0) =>
            /\ network_address' = Some(<< 192, 168, 1, 0 >>)
            /\ broadcast_address' = Some(<< 192, 168, 1, 255 >>)
            /\ subnet_count' = Some(U32(256))
            /\ host_count' = Some(U32(254)) ]_vars

\* C4 witness: Enter is being handled with "192.168.1.10" and "255.255.255.0"
\* typed and no result computed yet.
C4_Witness ==
    /\ AtEnter
    /\ ip_input = Str_192_168_1_10
    /\ subnet_input = Str_255_255_255_0
    /\ AllAbsent

\* C5: handling a key event never ends the process abnormally and never
\* leaves the results partially updated; the loop is left only by 'q'.
C5_KeyHandlingNonFatal ==
    [][ pc = "match" =>
            /\ pc' # "panicked"
            /\ (AllAbsent' \/ AllPresent')
            /\ (pc' # "draw" => event = Char("q")) ]_vars

\* C6: handling Enter leaves the input mode at NoTyping, from every mode and
\* whether or not the buffers parsed, and changes neither buffer.
C6_EnterLeavesNoTyping ==
    [][ AtEnter => (input_mode' = "NoTyping" /\ UNCHANGED << ip_input, subnet_input >>) ]_vars

----------------------------------------------------------------------------
(* Properties of the arithmetic functions (specification SpecArith) *)

\* The call that returned, and what it yielded.
Called(fn) == pc = "returned" /\ ret[1].fn = fn

Out == ret[1].out

\* x + 2 modulo 2^32.
PlusTwo(x) ==
    IF x.lo + 2 < Limb THEN [ hi |-> x.hi, lo |-> x.lo + 2 ]
    ELSE [ hi |-> (x.hi + 1) % Limb, lo |-> x.lo + 2 - Limb ]

\* The outcome of a subtraction of 2 that went below zero: a panic, or one
\* of the two wrapped values 2^32 - 2 and 2^32 - 1.
Underflowed(out) ==
    \/ out.panicked
    \/ out.value.hi = Limb - 1 /\ out.value.lo >= Limb - 2

\* C7: for the mask 0.0.0.0 the subnet count 2^32 does not fit in a u32 and
\* is not special-cased: calculate_subnet_count and calculate_host_count
\* overflow, that is, panic under overflow checks and otherwise wrap (to 0,
\* and to 0 - 2 = 4294967294).
C7_ZeroMaskOverflows ==
    (pc = "returned" /\ OnesOf(subnet) = 0) =>
        /\ Called("calculate_subnet_count") =>
               IF overflow_checks THEN Out.panicked ELSE Out = Returned(U32(0))
        /\ Called("calculate_host_count") =>
               IF overflow_checks THEN Out.panicked
               ELSE Out = Returned([ hi |-> 65535, lo |-> 65534 ])

\* C7 witness: calculate_subnet_count(0.0.0.0) has panicked.
C7_Witness ==
    /\ Called("calculate_subnet_count")
    /\ subnet = << 0, 0, 0, 0 >>
    /\ Out.panicked

\* C8 as stated: for every mask with 31 or 32 one-bits the subnet count is 0
\* or 1 and the subtraction of 2 underflows.
C8_UnderflowFrom31 ==
    (pc = "returned" /\ OnesOf(subnet) >= 31) =>
        /\ Called("calculate_subnet_count") =>
               ~Out.panicked /\ (IsNat(Out.value, 0) \/ IsNat(Out.value, 1))
        /\ Called("calculate_host_count") => Underflowed(Out)

\* C8 as amended: the host count is the subnet count minus 2 (modulo 2^32
\* where it wraps); with 32 one-bits the subnet count is 1 and the
\* subtraction underflows (a panic under overflow checks, 4294967295
\* otherwise); with 31 one-bits the subnet count is 2 and the host count is
\* 0, without underflow.
C8_UnderflowAt32 ==
    pc = "returned" =>
        /\ (Called("calculate_host_count") /\ ~Out.panicked) =>
               /\ ~calculate_subnet_count(subnet).panicked
               /\ PlusTwo(Out.value) = calculate_subnet_count(subnet).value
        /\ (Called("calculate_subnet_count") /\ OnesOf(subnet) = 32) =>
               Out = Returned(U32(1))
        /\ (Called("calculate_host_count") /\ OnesOf(subnet) = 32) =>
               IF overflow_checks THEN Out.panicked
               ELSE Out = Returned([ hi |-> 65535, lo |-> 65535 ])
        /\ (Called("calculate_subnet_count") /\ OnesOf(subnet) = 31) =>
               Out = Returned(U32(2))
        /\ (Called("calculate_host_count") /\ OnesOf(subnet) = 31) =>
               Out = Returned(U32(0))

\* C8 witness: calculate_host_count(255.255.255.255) has panicked on 1 - 2.
C8_Witness ==
    /\ Called("calculate_host_count")
    /\ subnet = << 255, 255, 255, 255 >>
    /\ overflow_checks
    /\ Out.panicked

\* C9: for every mask with n one-bits, 1 <= n <= 30, contiguous or not,
\* calculate_subnet_count returns 2^(32 - n) and calculate_host_count returns
\* 2^(32 - n) - 2, with or without overflow checks; 255.255.255.0 gives 256
\* and 254, 255.255.255.252 gives 4 and 2.
C9_CountsInRange ==
    pc = "returned" =>
        /\ (Called("calculate_subnet_count") /\ OnesOf(subnet) \in 1..30) =>
               ~Out.panicked /\ IsPowerOfTwo(Out.value, 32 - OnesOf(subnet))
        /\ (Called("calculate_host_count") /\ OnesOf(subnet) \in 1..30) =>
               ~Out.panicked /\ IsPowerOfTwoLess2(Out.value, 32 - OnesOf(subnet))
        /\ (Called("calculate_subnet_count") /\ subnet = << 255, 255, 255, 0 >>) =>
               Out = Returned(U32(256))
        /\ (Called("calculate_host_count") /\ subnet = << 255, 255, 255, 0 >>) =>
               Out = Returned(U32(254))
        /\ (Called("calculate_subnet_count") /\ subnet = << 255, 255, 255, 252 >>) =>
               Out = Returned(U32(4))
        /\ (Called("calculate_host_count") /\ subnet = << 255, 255, 255, 252 >>) =>
               Out = Returned(U32(2))

\* C9 witness: calculate_host_count of the non-contiguous mask
\* 170.0.255.252 (18 one-bits) has returned 2^14 - 2.
C9_Witness ==
    /\ Called("calculate_host_count")
    /\ subnet = << 170, 0, 255, 252 >>
    /\ Out = Returned(U32(16382))

\* C10: N = calculate_network_address(A, M) has no bit outside M and agrees
\* with A on every bit of M, in every octet; N = A for M = 255.255.255.255
\* and N = 0.0.0.0 for M = 0.0.0.0.
C10_NetworkAddressBits ==
    Called("calculate_network_address") =>
        /\ ~Out.panicked
        /\ \A i \in 1..4 :
               /\ Out.value[i] \in 0..255
               /\ \A k \in 0..7 :
                      /\ Bit(Out.value[i], k) = 1 => Bit(subnet[i], k) = 1
                      /\ Bit(subnet[i], k) = 1 => Bit(Out.value[i], k) = Bit(ip[i], k)
        /\ subnet = << 255, 255, 255, 255 >> => Out.value = ip
        /\ subnet = << 0, 0, 0, 0 >> => Out.value = << 0, 0, 0, 0 >>

\* C10 witness: the network address of 85.170.15.240 under the mask
\* 255.170.252.0 has been computed, and it is 85.170.12.0.
C10_Witness ==
    /\ Called("calculate_network_address")
    /\ ip = << 85, 170, 15, 240 >>
    /\ subnet = << 255, 170, 252, 0 >>
    /\ Out.value = << 85, 170, 12, 0 >>

\* C11: B = calculate_broadcast_address(A, M) agrees with A on every bit of
\* M (B AND M = A AND M) and has every bit outside M set (B OR M is all
\* ones), and each of its octets is in 0..255.
C11_BroadcastAddressBits ==
    Called("calculate_broadcast_address") =>
        /\ ~Out.panicked
        /\ \A i \in 1..4 :
               /\ Out.value[i] \in 0..255
               /\ \A k \in 0..7 :
                      /\ Bit(subnet[i], k) = 1 => Bit(Out.value[i], k) = Bit(ip[i], k)
                      /\ Bit(subnet[i], k) = 0 => Bit(Out.value[i], k) = 1

\* C11 witness: the broadcast address of 192.168.1.10 under 255.255.252.0
\* has been computed, and it is 192.168.3.255.
C11_Witness ==
    /\ Called("calculate_broadcast_address")
    /\ ip = << 192, 168, 1, 10 >>
    /\ subnet = << 255, 255, 252, 0 >>
    /\ Out.value = << 192, 168, 3, 255 >>

----------------------------------------------------------------------------
(* Further properties of the loop (specification Spec) *)

\* C12: a second Enter that follows an Enter with the buffers unchanged is
\* idempotent.  The mode is NoTyping only from the start or since an Enter
\* that returned, and while it is NoTyping no key changes a buffer; so an
\* Enter handled in NoTyping is such a second Enter (or an Enter over the
\* empty initial buffers).  It leaves the buffers, the mode and the four
\* results as they were, parseable buffers or not, and it still runs the
\* recomputation: with two literals it binds the parsed pair again and
\* stores values equal to the ones already there.
C12_SecondEnterIdempotent ==
    [][ /\ (input_mode # "NoTyping" /\ input_mode' = "NoTyping") => AtEnter
        /\ input_mode = "NoTyping" => UNCHANGED << ip_input, subnet_input >>
        /\ (AtEnter /\ input_mode = "NoTyping") =>
               /\ UNCHANGED app
               /\ pc' = "draw"
               /\ BothLiterals =>
                      /\ AllPresent
                      /\ ip' = AddrOf(ip_input)
                      /\ subnet' = AddrOf(subnet_input)
                      /\ network_address' = Some(calculate_network_address(ip', subnet'))
                      /\ host_count' = Some(calculate_host_count(subnet').value) ]_vars

\* C12 witness: Enter is being handled in NoTyping mode over the buffers
\* "192.168.1.10" and "255.255.255.0", whose results an earlier Enter stored.
C12_Witness ==
    /\ AtEnter
    /\ input_mode = "NoTyping"
    /\ ip_input = Str_192_168_1_10
    /\ subnet_input = Str_255_255_255_0
    /\ AllPresent

\* C12 witness of the unparseable case: a second Enter over an IP buffer that
\* is not a literal.
C12_WitnessUnparseable ==
    /\ AtEnter
    /\ input_mode = "NoTyping"
    /\ ip_input # << >>
    /\ ~IsIpv4Literal(ip_input)

\* C13: 'q' ends the loop from every mode with the buffers, the mode and the
\* results as they were, and it is the only key event that ends it: no other
\* key, no non-key event and no poll timeout takes the program out of the
\* loop (a failed terminal call, which is no event, is left aside).
C13_OnlyQEndsLoop ==
    [][ /\ (pc = "match" /\ event = Char("q")) =>
               (pc' = "disable_raw_mode" /\ UNCHANGED app)
        /\ (InLoop /\ ~InLoop' /\ pc' # "failed") =>
               (pc = "match" /\ event = Char("q")) ]_vars

\* C14: from every mode, 'i' sets the mode to IP and 's' sets it to Subnet;
\* neither changes a buffer or any of the four results, and the loop goes on.
C14_ModeKeys ==
    [][ /\ (pc = "match" /\ event = Char("i")) =>
               /\ input_mode' = "IP"
               /\ pc' = "draw"
               /\ UNCHANGED << ip_input, subnet_input, results >>
        /\ (pc = "match" /\ event = Char("s")) =>
               /\ input_mode' = "Subnet"
               /\ pc' = "draw"
               /\ UNCHANGED << ip_input, subnet_input, results >> ]_vars

\* C14 witness: 'i' is being handled in Subnet mode, with text in both
\* buffers and results present.
C14_Witness ==
    /\ pc = "match"
    /\ event = Char("i")
    /\ input_mode = "Subnet"
    /\ ip_input # << >>
    /\ subnet_input # << >>
    /\ AllPresent

\* C14 witnesses of the other modes and of 's'.
C14_WitnessS ==
    /\ pc = "match"
    /\ event = Char("s")
    /\ input_mode = "IP"
    /\ ip_input # << >>
    /\ AllPresent

C14_WitnessNoTyping ==
    /\ pc = "match"
    /\ event \in { Char("i"), Char("s") }
    /\ input_mode = "NoTyping"
    /\ AllPresent

\* The text t is the text s with the one character c after it.
Extends(t, s, c) ==
    /\ Len(t) = Len(s) + 1
    /\ \A k \in 1..Len(s) : t[k] = s[k]
    /\ t[Len(t)] = c

\* A character key other than the three command letters is being handled.
AtPlainChar ==
    /\ pc = "match"
    /\ event.code = "Char"
    /\ event.ch \notin { "q", "i", "s" }

\* C15: a character key other than 'q', 'i', 's' appends exactly that
\* character to the end of the buffer the mode selects (the IP buffer in IP
\* mode, the subnet buffer in Subnet mode) and changes nothing else of the
\* App; in NoTyping mode it changes nothing.
C15_CharAppends ==
    [][ AtPlainChar =>
            /\ pc' = "draw"
            /\ UNCHANGED << input_mode, results >>
            /\ input_mode = "IP" =>
                   (Extends(ip_input', ip_input, event.ch) /\ UNCHANGED subnet_input)
            /\ input_mode = "Subnet" =>
                   (Extends(subnet_input', subnet_input, event.ch) /\ UNCHANGED ip_input)
            /\ input_mode = "NoTyping" => UNCHANGED app ]_vars

\* C15 witness: the character '5' is being handled in Subnet mode after the
\* text "2" while the IP buffer holds text and results are present.
C15_Witness ==
    /\ AtPlainChar
    /\ event.ch = "5"
    /\ input_mode = "Subnet"
    /\ subnet_input = << "2" >>
    /\ ip_input # << >>
    /\ AllPresent

\* C15 witnesses of the other modes: a non-digit typed in IP mode, and a
\* character typed in NoTyping mode over non-empty buffers.
C15_WitnessIP ==
    /\ AtPlainChar
    /\ event.ch = "x"
    /\ input_mode = "IP"

C15_WitnessNoTyping ==
    /\ AtPlainChar
    /\ input_mode = "NoTyping"
    /\ ip_input # << >>
    /\ subnet_input # << >>

\* The text t is the text s without its last character; the empty text
\* stays empty.
DropsLast(t, s) ==
    IF Len(s) = 0 THEN t = s
    ELSE /\ Len(t) = Len(s) - 1
         /\ \A k \in 1..Len(t) : t[k] = s[k]

AtBackspace == pc = "match" /\ event = Backspace

\* C16: Backspace removes exactly the last character of the buffer the mode
\* selects and changes nothing else of the App; on an empty selected buffer
\* and in NoTyping mode it changes nothing; it never fails (the loop goes on
\* to the next frame).
C16_BackspacePops ==
    [][ AtBackspace =>
            /\ pc' = "draw"
            /\ UNCHANGED << input_mode, results >>
            /\ input_mode = "IP" =>
                   (DropsLast(ip_input', ip_input) /\ UNCHANGED subnet_input)
            /\ input_mode = "Subnet" =>
                   (DropsLast(subnet_input', subnet_input) /\ UNCHANGED ip_input)
            /\ input_mode = "NoTyping" => UNCHANGED app ]_vars

\* C16 witness: Backspace is being handled in IP mode over "192.1" while the
\* subnet buffer holds text and results are present.
C16_Witness ==
    /\ AtBackspace
    /\ input_mode = "IP"
    /\ ip_input = SubSeq(Str_192_168_1_10, 1, 5)
    /\ subnet_input # << >>
    /\ AllPresent

\* C16 witnesses of the cases without effect: an empty selected buffer
\* beside a non-empty one, and NoTyping mode over non-empty buffers.
C16_WitnessEmpty ==
    /\ AtBackspace
    /\ input_mode = "Subnet"
    /\ subnet_input = << >>
    /\ ip_input # << >>

C16_WitnessNoTyping ==
    /\ AtBackspace
    /\ input_mode = "NoTyping"
    /\ ip_input # << >>
    /\ subnet_input # << >>

\* The characters of the text s.
CharsOf(s) == { s[k] : k \in 1..Len(s) }

\* C19: in every reachable state neither buffer contains 'q', 'i' or 's':
\* the arms of the three letters come before the arm of any character, so
\* none of them is ever appended.
C19_NoCommandLettersInBuffers ==
    (CharsOf(ip_input) \cup CharsOf(subnet_input)) \cap { "q", "i", "s" } = {}

\* C19 witness: the letter 'i' is being handled in IP mode after "192" has
\* been typed, where an append would put it into the buffer.
C19_Witness ==
    /\ pc = "match"
    /\ event = Char("i")
    /\ input_mode = "IP"
    /\ ip_input = << "1", "9", "2" >>

\* The four results the code computes from the address a and the mask m.
ResultsOf(a, m) ==
    << Some(calculate_network_address(a, m)),
       Some(calculate_broadcast_address(a, m)),
       Some(calculate_subnet_count(m).value),
       Some(calculate_host_count(m).value) >>

\* C20: the results are those of the buffers as they were at the most recent
\* Enter at which both parsed: such an Enter stores the four values of its
\* buffers, and every other step (a character, Backspace, 'i', 's', any other
\* event, an Enter with an unparseable buffer) leaves the results as they
\* are; results that are present are never absent again.
C20_ResultsOfLastParsedEnter ==
    [][ /\ (AtEnter /\ BothLiterals) =>
               results' = ResultsOf(AddrOf(ip_input), AddrOf(subnet_input))
        /\ ~(AtEnter /\ BothLiterals) => UNCHANGED results
        /\ AllPresent => AllPresent' ]_vars

\* The positions of the newlines of the text t, and its n-th line.
NewlinesOf(t) == { k \in 1..Len(t) : t[k] = "\n" }

NthNewline(t, n) ==
    IF n = 0 THEN 0
    ELSE IF n > Cardinality(NewlinesOf(t)) THEN Len(t) + 1
    ELSE CHOOSE p \in NewlinesOf(t) :
             Cardinality({ q \in NewlinesOf(t) : q < p }) = n - 1

Line(t, n) == SubSeq(t, NthNewline(t, n - 1) + 1, NthNewline(t, n) - 1)

\* The frame on the terminal was drawn from the App as it is now: it was
\* drawn at the top of this iteration and no key has been handled since.
FrameIsOfThisIteration == pc \in { "poll", "read", "match" }

\* C17: the App starts with empty buffers, NoTyping mode and no results (it
\* is so until the first frame is drawn).  In every frame the title of the
\* input panel is the one of the mode and its body shows the two buffers;
\* while the results are absent the result panel shows the placeholders
\* 0.0.0.0, 0.0.0.0, 0 and 0.
C17_InitialStateAndFrame ==
    /\ frame = None =>
           /\ ip_input = << >>
           /\ subnet_input = << >>
           /\ input_mode = "NoTyping"
           /\ AllAbsent
    /\ FrameIsOfThisIteration =>
           LET f == frame[1]
           IN  /\ input_mode = "IP" => f.input_title = "Enter IP Address:"
               /\ input_mode = "Subnet" => f.input_title = "Enter Subnet Mask:"
               /\ input_mode = "NoTyping" =>
                      f.input_title = "Press 'i' to Input IP, 's' for Subnet"
               /\ Cardinality(NewlinesOf(f.input_text)) = 1
               /\ Line(f.input_text, 1) = << "I","P",":"," " >> \o ip_input
               /\ Line(f.input_text, 2) =
                      << "S","u","b","n","e","t",":"," " >> \o subnet_input
               /\ f.result_title = "Subnet Calculation"
               /\ AllAbsent =>
                      /\ Cardinality(NewlinesOf(f.result_text)) = 3
                      /\ Line(f.result_text, 1) =
                             << "N","e","t","w","o","r","k"," ",
                                "A","d","d","r","e","s","s",":"," " >>
                                 \o << "0",".","0",".","0",".","0" >>
                      /\ Line(f.result_text, 2) =
                             << "B","r","o","a","d","c","a","s","t"," ",
                                "A","d","d","r","e","s","s",":"," " >>
                                 \o << "0",".","0",".","0",".","0" >>
                      /\ Line(f.result_text, 3) =
                             << "S","u","b","n","e","t"," ","C","o","u","n","t",":"," " >>
                                 \o << "0" >>
                      /\ Line(f.result_text, 4) =
                             << "H","o","s","t"," ","C","o","u","n","t",":"," " >> \o << "0" >>

\* C17 witness: a frame has been drawn in Subnet mode with text in both
\* buffers and no results yet.
C17_Witness ==
    /\ pc = "poll"
    /\ frame # None
    /\ input_mode = "Subnet"
    /\ ip_input = Str_192_168_1_10
    /\ subnet_input # << >>
    /\ AllAbsent

\* C17 witness of the first frame: the initial App has been drawn.
C17_WitnessFirstFrame ==
    /\ pc = "poll"
    /\ frame # None
    /\ ip_input = << >>
    /\ subnet_input = << >>
    /\ input_mode = "NoTyping"
    /\ AllAbsent

\* C18: an iteration is a render, then one poll, then the handling of at
\* most one event.  Every poll directly follows a render of the App as it
\* is; an event is read only after a poll and matched only after its read,
\* with the App unchanged since that render; the App changes only while an
\* event is matched, and what follows the match is the next render (or the
\* end of the loop), never another poll, read or match.
C18_RenderPollHandleOne ==
    [][ /\ pc' = "poll" => (pc = "draw" /\ frame' = Some(Render(Self')))
        /\ pc = "poll" => (pc' \in { "read", "draw", "failed" } /\ UNCHANGED << app, frame >>)
        /\ pc' = "read" => pc = "poll"
        /\ pc' = "match" =>
               (pc = "read" /\ event' # NoEvent /\ frame' = Some(Render(Self')))
        /\ pc = "match" => pc' \notin { "poll", "read", "match" }
        /\ app' # app => pc = "match" ]_vars

\* C18 witness: a keystroke has changed the App and the frame on the
\* terminal is still the one drawn before it; the next step is the render.
C18_Witness ==
    /\ pc = "draw"
    /\ frame # None
    /\ frame # Some(Render(Self))
    /\ ip_input # << >>

============================================================================
